---- MODULE Spec2Model ----
(***************************************************************************)
(* Model of src/src/metrics/argumentative_metrics.py: the circularity,     *)
(* dialectical acceptability and dialectical faithfulness metrics of an    *)
(* argumentative explanation.  Each metric is a pure function; the action  *)
(* of its specification draws the inputs of one call and applies the       *)
(* function as the code computes it.                                       *)
(*                                                                         *)
(* Python lists are modelled as sequences, list positions are 0-based as   *)
(* in the code, and a score n/d is kept as the exact pair [num, den]       *)
(* (Python's float rounding is not modelled).                              *)
(***************************************************************************)
EXTENDS Integers, Sequences, FiniteSets, TLC

VARIABLES
    args,                   \* the argument list of the call
    attack_relations,       \* list of (attacker, attacked) pairs
    support_relations,      \* list of (supported, supporter) pairs
    args_y_hat,             \* arguments with the predicted conclusion
    top_confidence,
    high_confidence,
    model_predicted_label,
    model_confidence,
    pc,                     \* "idle" before the call, "done" after it
    ret                     \* what the call produced

vars == <<args, attack_relations, support_relations, args_y_hat, top_confidence,
          high_confidence, model_predicted_label, model_confidence, pc, ret>>

(***************************************************************************)
(* Bounds of the inputs.                                                   *)
(***************************************************************************)
MaxArgs == 3
MaxEdges == 3
MaxAttacks == 2
MaxYHat == 2
MaxFaithArgs == 2
MaxFaithAttacks == 2

\* line 165: the strength 0.5 up to which an argument is weak, in tenths
WeakStrength == 5

\* Identifiers of arguments; Unknown is an identifier no argument list holds.
Names == <<"a", "b", "c", "d", "e", "f">>
Unknown == "z"

Min(x, y) == IF x < y THEN x ELSE y

Range(s) == {s[i] : i \in 1..Len(s)}

\* The argument lists: n distinct identifiers, named by their position.
ArgLists == {SubSeq(Names, 1, n) : n \in 0..Min(MaxArgs, Len(Names))}

\* One edge list that names an identifier missing from the argument list.
DanglingLists(a) ==
    {<<e>> : e \in {p \in (Range(a) \cup {Unknown}) \X (Range(a) \cup {Unknown}) :
                        Unknown \in {p[1], p[2]}}}

NoRet == [outcome |-> "none"]

(***************************************************************************)
(* list.index: the first position (0-based) holding x; ValueError when     *)
(* there is none.                                                          *)
(***************************************************************************)
Contains(list, x) == \E i \in 1..Len(list) : list[i] = x

index(list, x) ==
    (CHOOSE i \in 1..Len(list) :
        list[i] = x /\ \A j \in 1..(i - 1) : list[j] # x) - 1

(***************************************************************************)
(* compute_circularity, lines 22-30: the adjacency lists.                  *)
(***************************************************************************)
EmptyAf(num_nodes) == [ind \in 0..(num_nodes - 1) |-> <<>>]

\* line 29: a support pair is (supported, supporter) and gives the edge
\* supported -> supporter.
SupportEdge(support_pair) == [src |-> support_pair[1], dst |-> support_pair[2]]

\* line 25: an attack pair is (attacker, attacked): attacker -> attacked.
AttackEdge(attack_pair) == [src |-> attack_pair[1], dst |-> attack_pair[2]]

\* lines 26 and 30: af[args.index(src)].append(args.index(dst))
RECURSIVE AddEdges(_, _, _, _)
AddEdges(st, list, edges, i) ==
    IF st.outcome # "ok" \/ i > Len(edges) THEN st
    ELSE IF ~Contains(list, edges[i].src) \/ ~Contains(list, edges[i].dst)
         THEN [outcome |-> "ValueError", af |-> st.af]
         ELSE LET s == index(list, edges[i].src)
                  d == index(list, edges[i].dst)
              IN AddEdges([outcome |-> "ok",
                           af |-> [st.af EXCEPT ![s] = Append(@, d)]],
                          list, edges, i + 1)

AttackEdges(attacks) == [i \in 1..Len(attacks) |-> AttackEdge(attacks[i])]

SupportEdges(supports) == [i \in 1..Len(supports) |-> SupportEdge(supports[i])]

BuildAf(list, attacks, supports) ==
    AddEdges(AddEdges([outcome |-> "ok", af |-> EmptyAf(Len(list))],
                      list, AttackEdges(attacks), 1),
             list, SupportEdges(supports), 1)

(***************************************************************************)
(* _dfs_cycle, lines 95-108.  visited and stack are the two marker lists,  *)
(* threaded through the recursion as the code mutates them in place.       *)
(***************************************************************************)
\* a variant of OnStack that takes every visited neighbour for one on the stack
OnStackOrVisited(stack, arg) == TRUE

\* line 104: a visited neighbour signals a cycle when it is on the stack.

OnStack(stack, arg) == stack[arg]

RECURSIVE dfs_cycle(_, _, _, _)
RECURSIVE dfs_loop(_, _, _, _, _)

\* the loop of lines 100-108 from the i-th neighbour of start on
dfs_loop(arg_framework, start, i, visited, stack) ==
    IF i > Len(arg_framework[start])
    THEN [found |-> FALSE, visited |-> visited,
          stack |-> [stack EXCEPT ![start] = FALSE]]
    ELSE LET arg == arg_framework[start][i] IN
         IF ~visited[arg]
         THEN LET r == dfs_cycle(arg_framework, arg, visited, stack) IN
              IF r.found THEN r
              ELSE dfs_loop(arg_framework, start, i + 1, r.visited, r.stack)
         ELSE IF OnStack(stack, arg)
              THEN [found |-> TRUE, visited |-> visited, stack |-> stack]
              ELSE dfs_loop(arg_framework, start, i + 1, visited, stack)

dfs_cycle(arg_framework, start, visited, stack) ==
    dfs_loop(arg_framework, start, 1,
             [visited EXCEPT ![start] = TRUE], [stack EXCEPT ![start] = TRUE])

(***************************************************************************)
(* compute_circularity, lines 32-40.  roots records, for each top-level    *)
(* call of _dfs_cycle (line 37), its start node and what it returned.      *)
(***************************************************************************)
RECURSIVE circularity_loop(_, _, _)
circularity_loop(af, node, st) ==
    IF node >= st.num_nodes THEN st
    ELSE IF st.visited[node] THEN circularity_loop(af, node + 1, st)
    ELSE LET r == dfs_cycle(af, node, st.visited, st.stack) IN
         circularity_loop(af, node + 1,
            [num_nodes |-> st.num_nodes,
             visited |-> r.visited,
             stack |-> r.stack,
             score |-> IF r.found THEN st.score + 1 ELSE st.score,
             roots |-> Append(st.roots, [node |-> node, found |-> r.found,
                                         stale |-> {v \in DOMAIN st.stack : st.stack[v]}])])

\* a variant of Divide that guards the empty list by returning the score 0
DivideOrZero(score, num_nodes) ==
    IF num_nodes = 0 THEN [outcome |-> "return", num |-> 0, den |-> 1]
    ELSE [outcome |-> "return", num |-> score, den |-> num_nodes]

\* line 40: score / num_nodes, which raises ZeroDivisionError for 0 nodes
Divide(score, num_nodes) ==
    IF num_nodes = 0 THEN [outcome |-> "ZeroDivisionError"]
    ELSE [outcome |-> "return", num |-> score, den |-> num_nodes]

compute_circularity(list, attacks, supports) ==
    LET num_nodes == Len(list)
        b == BuildAf(list, attacks, supports)
    IN IF b.outcome # "ok" THEN [outcome |-> "ValueError"]
       ELSE LET st == circularity_loop(b.af, 0,
                        [num_nodes |-> num_nodes,
                         visited |-> [v \in 0..(num_nodes - 1) |-> FALSE],
                         stack |-> [v \in 0..(num_nodes - 1) |-> FALSE],
                         score |-> 0,
                         roots |-> <<>>])
                q == Divide(st.score, num_nodes)
            IN IF q.outcome = "return" THEN q @@ [roots |-> st.roots] ELSE q

(***************************************************************************)
(* The calls of compute_circularity.                                       *)
(***************************************************************************)
\* No call was made yet.
Init ==
    /\ args = <<>>
    /\ attack_relations = <<>>
    /\ support_relations = <<>>
    /\ args_y_hat = <<>>
    /\ top_confidence = 0
    /\ high_confidence = 0
    /\ model_predicted_label = ""
    /\ model_confidence = 0
    /\ pc = "idle"
    /\ ret = NoRet

\* Well-formed calls hold at most MaxEdges edges over the listed arguments;
\* the others hold a single edge that names an unlisted identifier.
CircularityInputs(a, at, su) ==
    \/ \E m \in 0..MaxEdges : \E k \in 0..(MaxEdges - m) :
          /\ at \in [1..m -> Range(a) \X Range(a)]
          /\ su \in [1..k -> Range(a) \X Range(a)]
    \/ at \in DanglingLists(a) /\ su = <<>>
    \/ at = <<>> /\ su \in DanglingLists(a)

CallCircularity ==
    /\ pc = "idle"
    /\ args' \in ArgLists
    /\ CircularityInputs(args', attack_relations', support_relations')
    /\ ret' = compute_circularity(args', attack_relations', support_relations')
    /\ pc' = "done"
    /\ UNCHANGED <<args_y_hat, top_confidence, high_confidence,
                   model_predicted_label, model_confidence>>

NextCircularity == CallCircularity

SpecCircularity == Init /\ [][NextCircularity]_vars

(***************************************************************************)
(* compute_dialectical_acceptability, lines 56-92.                         *)
(***************************************************************************)
\* lines 64-69: the attackers of each argument, and whether an attacked
\* argument is listed in args_y_hat
RECURSIVE acceptability_attacks(_, _, _, _, _)
acceptability_attacks(st, list, attacks, y_hat, i) ==
    IF st.outcome # "ok" \/ i > Len(attacks) THEN st
    ELSE LET attacker == attacks[i][1]
             attacked == attacks[i][2]
         IN IF ~Contains(list, attacked) \/ ~Contains(list, attacker)
            THEN [outcome |-> "ValueError"]
            ELSE acceptability_attacks(
                    [outcome |-> "ok",
                     af_attacks |-> [st.af_attacks EXCEPT
                                        ![index(list, attacked)] =
                                            Append(@, index(list, attacker))],
                     is_yhat_attacked |-> st.is_yhat_attacked \/ Contains(y_hat, attacked)],
                    list, attacks, y_hat, i + 1)

\* a variant of AttackerIsAttacked that counts the unattacked attackers
AttackerIsUnattacked(af_attacks, a_j) == af_attacks[a_j] = <<>>

\* line 81: an attacker counts when its own attacker list is not empty
AttackerIsAttacked(af_attacks, a_j) == af_attacks[a_j] # <<>>

\* lines 77-88: score_a_i
local_score(af_attacks, arg_i_attackers) ==
    IF arg_i_attackers # <<>>
    THEN [num |-> Cardinality({j \in 1..Len(arg_i_attackers) :
                                  AttackerIsAttacked(af_attacks, arg_i_attackers[j])}),
          den |-> Len(arg_i_attackers)]
    ELSE [num |-> 1, den |-> 1]

\* line 90: score += score_a_i, on exact fractions
AddFraction(p, q) == [num |-> p.num * q.den + q.num * p.den, den |-> p.den * q.den]

\* lines 76-90
RECURSIVE acceptability_sum(_, _, _, _, _)
acceptability_sum(score, af_attacks, list, y_hat, i) ==
    IF i > Len(y_hat) THEN [outcome |-> "ok", score |-> score]
    ELSE IF ~Contains(list, y_hat[i]) THEN [outcome |-> "ValueError"]
    ELSE acceptability_sum(
            AddFraction(score, local_score(af_attacks, af_attacks[index(list, y_hat[i])])),
            af_attacks, list, y_hat, i + 1)

\* line 92: score / num_nodes
DivideFraction(score, num_nodes) ==
    IF num_nodes = 0 THEN [outcome |-> "ZeroDivisionError"]
    ELSE [outcome |-> "return", num |-> score.num, den |-> score.den * num_nodes]

compute_dialectical_acceptability(list, attacks, y_hat) ==
    LET num_nodes == Len(list)
        a == acceptability_attacks(
                [outcome |-> "ok", af_attacks |-> EmptyAf(num_nodes),
                 is_yhat_attacked |-> FALSE],
                list, attacks, y_hat, 1)
    IN IF a.outcome # "ok" THEN [outcome |-> "ValueError"]
       ELSE IF ~a.is_yhat_attacked THEN [outcome |-> "return", num |-> 1, den |-> 1]
       ELSE LET s == acceptability_sum([num |-> 0, den |-> 1], a.af_attacks, list, y_hat, 1)
            IN IF s.outcome # "ok" THEN [outcome |-> "ValueError"]
               ELSE DivideFraction(s.score, num_nodes)

(***************************************************************************)
(* The calls of compute_dialectical_acceptability: at most MaxAttacks      *)
(* attack pairs and MaxYHat entries of args_y_hat; an entry of args_y_hat  *)
(* may be an unlisted identifier, and so may an end of a single attack.    *)
(***************************************************************************)
CallAcceptability ==
    /\ pc = "idle"
    /\ args' \in ArgLists
    /\ \/ \E m \in 0..MaxAttacks :
             attack_relations' \in [1..m -> Range(args') \X Range(args')]
       \/ attack_relations' \in DanglingLists(args')
    /\ \E k \in 0..MaxYHat : args_y_hat' \in [1..k -> Range(args') \cup {Unknown}]
    /\ ret' = compute_dialectical_acceptability(args', attack_relations', args_y_hat')
    /\ pc' = "done"
    /\ UNCHANGED <<support_relations, top_confidence, high_confidence,
                   model_predicted_label, model_confidence>>

NextAcceptability == CallAcceptability

SpecAcceptability == Init /\ [][NextAcceptability]_vars

(***************************************************************************)
(* compute_dialectical_faithfulness, lines 111-169.  An argument is the    *)
(* record [id, conclusion, strength], strengths counted in tenths.         *)
(***************************************************************************)
\* line 116
get_attackers(list, attacks, arg_id) ==
    SelectSeq(list, LAMBDA attacker : <<attacker.id, arg_id>> \in Range(attacks))

\* line 121
get_dialectical_strength(argument) == argument.strength

\* line 146
ArgumentsForPredicted(y_hat, predicted_label) ==
    SelectSeq(y_hat, LAMBDA arg : arg.conclusion = predicted_label)

\* a variant of TopRejects that tolerates an attacker of equal strength
StrictlyStronger(attacker, arg) ==
    get_dialectical_strength(attacker) > get_dialectical_strength(arg)

\* line 152: the top tier rejects an attacker at least as strong
TopRejects(attacker, arg) ==
    get_dialectical_strength(attacker) >= get_dialectical_strength(arg)

\* line 159: the high tier rejects a strictly stronger attacker
HighRejects(attacker, arg) ==
    get_dialectical_strength(attacker) > get_dialectical_strength(arg)

\* line 167: the low tier rejects an attacker that is not stronger
LowRejects(attacker, arg) ==
    get_dialectical_strength(attacker) <= get_dialectical_strength(arg)

\* a variant of IsStrong that also checks an argument of strength 0.5
IsStrongOrEqual(arg) == get_dialectical_strength(arg) >= WeakStrength

\* line 165: only an argument stronger than 0.5 is checked in the low tier
IsStrong(arg) == get_dialectical_strength(arg) > WeakStrength

\* the comparison of the branch taken: lines 152, 159 and 167
Rejects(tier, attacker, arg) ==
    CASE tier = "top" -> TopRejects(attacker, arg)
      [] tier = "high" -> HighRejects(attacker, arg)
      [] tier = "low" -> LowRejects(attacker, arg)

\* only the low tier skips arguments: line 165
Checked(tier, arg) == tier = "low" => IsStrong(arg)

\* the inner loops of lines 151-153, 158-160 and 166-168: some attacker from
\* the j-th on is rejected
RECURSIVE attacker_loop(_, _, _, _)
attacker_loop(tier, attackers, arg, j) ==
    IF j > Len(attackers) THEN FALSE
    ELSE IF Rejects(tier, attackers[j], arg) THEN TRUE
    ELSE attacker_loop(tier, attackers, arg, j + 1)

\* the outer loops of lines 150-154, 157-161 and 164-169: what the branch returns
RECURSIVE argument_loop(_, _, _, _, _)
argument_loop(tier, list, attacks, arguments_for_predicted, i) ==
    IF i > Len(arguments_for_predicted) THEN TRUE
    ELSE LET arg == arguments_for_predicted[i] IN
         IF Checked(tier, arg)
            /\ attacker_loop(tier, get_attackers(list, attacks, arg.id), arg, 1)
         THEN FALSE
         ELSE argument_loop(tier, list, attacks, arguments_for_predicted, i + 1)

\* lines 148, 155 and 162: the branch a confidence takes
Tier(confidence, top, high) ==
    IF confidence >= top THEN "top"
    ELSE IF confidence >= high THEN "high"
    ELSE "low"

compute_dialectical_faithfulness(list, attacks, supports, y_hat, top, high, label, confidence) ==
    [outcome |-> "return",
     value |-> argument_loop(Tier(confidence, top, high), list, attacks,
                             ArgumentsForPredicted(y_hat, label), 1)]

(***************************************************************************)
(* The calls of compute_dialectical_faithfulness.  The i-th argument has   *)
(* the identifier Names[i]; args_y_hat is a sublist of args.  The attack   *)
(* list is read only by the membership test of line 116, so one list is    *)
(* drawn per set of attack pairs.                                          *)
(***************************************************************************)
Conclusions == {"y", "n"}

Strengths == {WeakStrength - 1, WeakStrength, WeakStrength + 1}

Confidences == {1, 2, 3}

Thresholds == {2, 3}

FaithArgLists ==
    UNION {{[i \in 1..n |-> [id |-> Names[i], conclusion |-> c[i], strength |-> w[i]]] :
               c \in [1..n -> Conclusions], w \in [1..n -> Strengths]} :
           n \in 0..Min(MaxFaithArgs, Len(Names))}

RECURSIVE SetToSeq(_)
SetToSeq(S) ==
    IF S = {} THEN <<>>
    ELSE LET x == CHOOSE y \in S : TRUE IN <<x>> \o SetToSeq(S \ {x})

Identifiers(list) == {list[i].id : i \in 1..Len(list)}

Sublists(list) ==
    {SelectSeq(list, LAMBDA arg : arg.id \in keep) : keep \in SUBSET Identifiers(list)}

CallFaithfulness ==
    /\ pc = "idle"
    /\ args' \in FaithArgLists
    /\ \E S \in SUBSET (Identifiers(args') \X Identifiers(args')) :
          /\ Cardinality(S) <= MaxFaithAttacks
          /\ attack_relations' = SetToSeq(S)
    /\ support_relations' \in {<<>>, <<<<Names[1], Names[1]>>>>}
    /\ args_y_hat' \in Sublists(args')
    /\ top_confidence' \in Thresholds
    /\ high_confidence' \in Thresholds
    /\ model_predicted_label' = "y"
    /\ model_confidence' \in Confidences
    /\ ret' = compute_dialectical_faithfulness(args', attack_relations',
                    support_relations', args_y_hat', top_confidence', high_confidence',
                    model_predicted_label', model_confidence')
    /\ pc' = "done"

NextFaithfulness == CallFaithfulness

SpecFaithfulness == Init /\ [][NextFaithfulness]_vars

(***************************************************************************)
(* The combined graph of a call, read off the inputs: nodes are the        *)
(* positions of the argument list, with an edge attacker -> attacked per   *)
(* attack pair and supported -> supporter per support pair.                *)
(***************************************************************************)
Nodes == 0..(Len(args) - 1)

WellFormed ==
    \A p \in Range(attack_relations) \cup Range(support_relations) :
        Contains(args, p[1]) /\ Contains(args, p[2])

Pos(x) == CHOOSE v \in Nodes : args[v + 1] = x

GraphEdges ==
    {<<Pos(p[1]), Pos(p[2])>> : p \in Range(attack_relations) \cup Range(support_relations)}

\* the pairs joined by two consecutive edges of R
Compose(R) == {<<q[1][1], q[2][2]>> : q \in {p \in R \X R : p[1][2] = p[2][1]}}

\* the transitive closure of R
RECURSIVE TC(_)
TC(R) == IF Compose(R) \subseteq R THEN R ELSE TC(R \cup Compose(R))

Closure == TC(GraphEdges)

\* the nodes from which a directed cycle is reachable
ReachACycle(T) ==
    {r \in Nodes : \E v \in Nodes : (v = r \/ <<r, v>> \in T) /\ <<v, v>> \in T}

\* the weakly connected components
Components ==
    LET W == TC(GraphEdges \cup {<<e[2], e[1]>> : e \in GraphEdges})
    IN {{v} \cup {u \in Nodes : <<v, u>> \in W} : v \in Nodes}

\* the subgraph induced on S holds a directed cycle
InducedCycle(S) ==
    \E v \in S : <<v, v>> \in TC({e \in GraphEdges : e[1] \in S /\ e[2] \in S})

TwoDisjointCycles ==
    \E S1, S2 \in SUBSET Nodes : S1 \cap S2 = {} /\ InducedCycle(S1) /\ InducedCycle(S2)

PermsOf(s) == {[i \in 1..Len(s) |-> s[f[i]]] : f \in Permutations(1..Len(s))}

Returned == pc = "done" /\ ret.outcome = "return"

\* C1: for a non-empty argument list and edges over it, compute_circularity
\* returns k/n with n the number of arguments and k the number of top-level
\* _dfs_cycle calls from whose start node a directed cycle is reachable; every
\* top-level call returns true exactly when a cycle is reachable from its start.
C1_RootsThatReachACycle ==
    (pc = "done" /\ WellFormed /\ Len(args) > 0) =>
        LET cyc == ReachACycle(Closure) IN
        /\ ret.outcome = "return"
        /\ ret.den = Len(args)
        /\ \A i \in 1..Len(ret.roots) :
              ret.roots[i].found <=> ret.roots[i].node \in cyc
        /\ ret.num = Cardinality({i \in 1..Len(ret.roots) : ret.roots[i].node \in cyc})

\* a top-level call that started with on-stack markers left by an earlier one
\* found a cycle, and another top-level call found none
C1_Witness ==
    /\ Returned
    /\ \E i, j \in 1..Len(ret.roots) :
          /\ ret.roots[i].found /\ ret.roots[i].stale # {}
          /\ ~ret.roots[j].found

\* C2: when the combined graph has exactly two weakly connected components,
\* one holding a directed cycle and the other acyclic, compute_circularity
\* returns exactly 1/n.
C2_OneCyclicComponentScoresOne ==
    (pc = "done" /\ WellFormed /\ Cardinality(Components) = 2
        /\ Cardinality({C \in Components : InducedCycle(C)}) = 1) =>
        /\ ret.outcome = "return"
        /\ ret.num = 1
        /\ ret.den = Len(args)

\* C3: when the combined graph is one weakly connected component holding two
\* vertex-disjoint directed cycles, the counter is incremented exactly once
\* and the result is 1/n.
C3_TwoCyclesCountOnce ==
    (pc = "done" /\ WellFormed /\ Cardinality(Components) = 1 /\ TwoDisjointCycles) =>
        /\ ret.outcome = "return"
        /\ ret.num = 1
        /\ ret.den = Len(args)

\* C4: every permutation of the argument list and of the two edge lists
\* yields the same score.
C4_OrderIndependent ==
    (pc = "done" /\ WellFormed /\ Len(args) > 0) =>
        \A a \in PermsOf(args), at \in PermsOf(attack_relations),
           su \in PermsOf(support_relations) :
            LET r == compute_circularity(a, at, su)
            IN r.outcome = ret.outcome /\ r.num = ret.num /\ r.den = ret.den

\* C9: compute_circularity of an empty argument list ends in an error and
\* returns no value; with no edges the error is the division by zero.
C9_EmptyArgumentsRaise ==
    (pc = "done" /\ args = <<>>) =>
        /\ ret.outcome \in {"ZeroDivisionError", "ValueError"}
        /\ DOMAIN ret = {"outcome"}
        /\ (attack_relations = <<>> /\ support_relations = <<>>) =>
              ret.outcome = "ZeroDivisionError"

C9_Witness ==
    pc = "done" /\ args = <<>> /\ attack_relations = <<>> /\ support_relations = <<>>
        /\ ret.outcome = "ZeroDivisionError"

(***************************************************************************)
(* Acceptability, read off the inputs.                                     *)
(***************************************************************************)
AttacksKnown ==
    \A p \in Range(attack_relations) : Contains(args, p[1]) /\ Contains(args, p[2])

YHatKnown == \A x \in Range(args_y_hat) : Contains(args, x)

\* some attack pair has x as its attacked argument
IsAttacked(x) == \E p \in Range(attack_relations) : p[2] = x

YHatAttacked == \E x \in Range(args_y_hat) : IsAttacked(x)

\* the attack pairs that target x, and those among them whose attacker is attacked
AttacksOn(x) == {i \in 1..Len(attack_relations) : attack_relations[i][2] = x}

RebuttedAttacksOn(x) == {i \in AttacksOn(x) : IsAttacked(attack_relations[i][1])}

LocalNum(x) == IF AttacksOn(x) = {} THEN 1 ELSE Cardinality(RebuttedAttacksOn(x))

LocalDen(x) == IF AttacksOn(x) = {} THEN 1 ELSE Cardinality(AttacksOn(x))

RECURSIVE Product(_, _)
Product(f, i) == IF i = 0 THEN 1 ELSE f[i] * Product(f, i - 1)

RECURSIVE Sum(_, _)
Sum(f, i) == IF i = 0 THEN 0 ELSE f[i] + Sum(f, i - 1)

\* the sum of the local scores of the entries of args_y_hat, as a fraction
\* over the product of their denominators
SumDen == Product([i \in 1..Len(args_y_hat) |-> LocalDen(args_y_hat[i])], Len(args_y_hat))

SumNum ==
    Sum([i \in 1..Len(args_y_hat) |->
            LocalNum(args_y_hat[i]) * (SumDen \div LocalDen(args_y_hat[i]))],
        Len(args_y_hat))

\* C5: compute_dialectical_acceptability returns exactly 1 when no entry of
\* args_y_hat is attacked; otherwise it returns the sum over args_y_hat of the
\* local scores divided by the total number of arguments, the local score
\* being 1 for an unattacked entry and otherwise the share of the attack pairs
\* on it whose attacker is itself attacked.
C5_AcceptabilityScore ==
    (pc = "done" /\ AttacksKnown) =>
        /\ ~YHatAttacked =>
              ret.outcome = "return" /\ ret.num = ret.den
        /\ (YHatAttacked /\ YHatKnown) =>
              /\ ret.outcome = "return"
              /\ ret.num * (SumDen * Len(args)) = SumNum * ret.den

\* an entry with two attack pairs on it, one of them rebutted, beside an
\* unattacked entry: the score is (1/2 + 1) / n
C5_Witness ==
    /\ Returned /\ AttacksKnown /\ YHatKnown
    /\ \E x, y \in Range(args_y_hat) :
          /\ Cardinality(AttacksOn(x)) = 2
          /\ Cardinality(RebuttedAttacksOn(x)) = 1
          /\ AttacksOn(y) = {}
    /\ ret.num * 2 * Len(args) = 3 * ret.den

\* C6: compute_dialectical_acceptability ends in a lookup error whenever an
\* identifier of args_y_hat or of an attack pair is not in the argument list.
C6_UnknownIdentifierRaises ==
    (pc = "done" /\ (~AttacksKnown \/ ~YHatKnown)) => ret.outcome = "ValueError"

(***************************************************************************)
(* Faithfulness, read off the inputs.                                      *)
(***************************************************************************)
\* the entries of args_y_hat whose conclusion is the predicted label
Predicted == {i \in 1..Len(args_y_hat) : args_y_hat[i].conclusion = model_predicted_label}

\* the arguments x with an attack pair (x.id, p.id)
AttackersOf(p) == {j \in 1..Len(args) : <<args[j].id, p.id>> \in Range(attack_relations)}

TopPolicy ==
    \A i \in Predicted : \A j \in AttackersOf(args_y_hat[i]) :
        args[j].strength < args_y_hat[i].strength

HighPolicy ==
    \A i \in Predicted : \A j \in AttackersOf(args_y_hat[i]) :
        args[j].strength <= args_y_hat[i].strength

LowPolicy ==
    \A i \in Predicted : args_y_hat[i].strength > WeakStrength =>
        \A j \in AttackersOf(args_y_hat[i]) : args[j].strength > args_y_hat[i].strength

\* C7: with top_confidence >= high_confidence the result is the three-tier
\* policy over the entries of args_y_hat with the predicted conclusion: no
\* attacker at least as strong in the top tier, none strictly stronger in the
\* high tier, and in the low tier no entry stronger than 0.5 with an attacker
\* that is not stronger than it.
C7_ThreeTierPolicy ==
    (pc = "done" /\ top_confidence >= high_confidence) =>
        /\ ret.outcome = "return"
        /\ model_confidence >= top_confidence => (ret.value <=> TopPolicy)
        /\ (high_confidence <= model_confidence /\ model_confidence < top_confidence) =>
              (ret.value <=> HighPolicy)
        /\ model_confidence < high_confidence => (ret.value <=> LowPolicy)

\* low tier: an entry of strength exactly 0.5 with an attacker no stronger than
\* it is not checked, beside an entry with another conclusion, and the result
\* is true
C7_Witness ==
    /\ Returned /\ top_confidence >= high_confidence
    /\ model_confidence < high_confidence
    /\ \E i \in Predicted :
          /\ args_y_hat[i].strength = WeakStrength
          /\ \E j \in AttackersOf(args_y_hat[i]) : args[j].strength <= WeakStrength
    /\ \E i \in 1..Len(args_y_hat) : i \notin Predicted
    /\ ret.value = TRUE

\* C8: in the low tier the result is false whenever an entry of args_y_hat with
\* the predicted conclusion has strength > 0.5 and no attack pair targets it.
C8_StrongUncontestedIsUnfaithful ==
    (/\ pc = "done"
     /\ model_confidence < high_confidence /\ model_confidence < top_confidence
     /\ \E i \in Predicted :
           /\ args_y_hat[i].strength > WeakStrength
           /\ \A p \in Range(attack_relations) : p[2] # args_y_hat[i].id)
    => (ret.outcome = "return" /\ ret.value = FALSE)

\* the result of the call with another model_confidence
FaithfulAt(confidence) ==
    compute_dialectical_faithfulness(args, attack_relations, support_relations,
        args_y_hat, top_confidence, high_confidence, model_predicted_label,
        confidence).value

HighTier == {c \in Confidences : high_confidence <= c /\ c < top_confidence}

\* some checked entry has an attacker of its own strength and none stronger
SomeEntryTiedNotOutmatched ==
    \E i \in Predicted :
        /\ \E j \in AttackersOf(args_y_hat[i]) : args[j].strength = args_y_hat[i].strength
        /\ \A j \in AttackersOf(args_y_hat[i]) : args[j].strength <= args_y_hat[i].strength

\* some checked entry has an attacker of its own strength, and no checked
\* entry has a stronger attacker
SomeEntryTiedNoneOutmatched ==
    /\ \E i \in Predicted :
          \E j \in AttackersOf(args_y_hat[i]) : args[j].strength = args_y_hat[i].strength
    /\ \A i \in Predicted :
          \A j \in AttackersOf(args_y_hat[i]) : args[j].strength <= args_y_hat[i].strength

\* C10 as stated: a true result in the top tier is also true in the high tier
\* on the same graph, and the high tier is true where the top tier is false
\* exactly when some checked entry has an attacker of equal strength and none
\* of greater strength.
C10_TopStricterThanHigh_AsStated ==
    (pc = "done" /\ ret.outcome = "return" /\ model_confidence >= top_confidence) =>
        \A c \in HighTier :
            /\ ret.value => FaithfulAt(c)
            /\ (FaithfulAt(c) /\ ~ret.value) <=> SomeEntryTiedNotOutmatched

\* C10, amended: a true result in the top tier is also true in the high tier
\* on the same graph, and the high tier is true where the top tier is false
\* exactly when some checked entry has an attacker of equal strength and no
\* checked entry has an attacker of greater strength.
C10_TopStricterThanHigh ==
    (pc = "done" /\ ret.outcome = "return" /\ model_confidence >= top_confidence) =>
        \A c \in HighTier :
            /\ ret.value => FaithfulAt(c)
            /\ (FaithfulAt(c) /\ ~ret.value) <=> SomeEntryTiedNoneOutmatched

\* a top-tier call that returned false on a graph, with two checked entries,
\* on which the high tier returns true
C10_Witness ==
    /\ Returned /\ model_confidence >= top_confidence
    /\ ret.value = FALSE
    /\ Cardinality(Predicted) = 2
    /\ \E c \in HighTier : FaithfulAt(c)

====
